---- MODULE Spec2Model ----
(***************************************************************************)
(* A model of the isu dialogue manager (src/src/lib.rs): the semantic      *)
(* types and their text constructors, the Domain registry, the scripted    *)
(* input handler, the SimpleGenGrammar and the IBISController turn loop.   *)
(*                                                                         *)
(* Rust Strings are modelled as sequences of one-character strings, so     *)
(* that parsing and formatting are computed character by character.        *)
(* Option<T> is modelled as a sequence of length 0 (None) or 1 (Some).     *)
(* Result<T, String> is a record with tag "Ok" or "Err"; a panic (a failed *)
(* unwrap/expect/assert) is the third outcome, tag "Panic".                *)
(***************************************************************************)
EXTENDS Integers, Sequences, FiniteSets, TLC

VARIABLES
    pc,          \* position of IBISController::run / control
    mivs,        \* StandardMIVS: input, latest_speaker, latest_moves, next_moves, output, program_state
    is,          \* IBISInfostate.is: the Record's fields
    domain,      \* Domain: preds0, preds1, sorts, inds, plans
    inputs,      \* DemoInputHandler.inputs: the lines not read yet
    script,      \* the list DemoInputHandler::new was given
    transcript,  \* what was printed: system turns, echoed user turns, notices
    call         \* the latest Domain call made by a client, with its result

vars == <<pc, mivs, is, domain, inputs, script, transcript, call>>

----------------------------------------------------------------------------
(* Bounds of the model *)

\* longest scripted input list drawn by Init (the travel script is added to them)
MaxLines == 3
\* longest plan handed to add_plan
MaxPlanLen == 2
\* longest text built of TextChars that is handed to the text constructors
MaxTextLen == 3
\* most alternatives of an AltQ
MaxAlts == 2
\* number of distinct items pushed onto a StackSet
MaxItems == 5
\* deepest Stack built by the client of the constrained containers
MaxDepth == 2
\* most calls of read_line made by the client of an input handler
MaxReads == 5

----------------------------------------------------------------------------
(* Strings *)

\* the reserved words of Atomic::new, which are also the YesNo answers
s_yes == <<"y", "e", "s">>
s_no == <<"n", "o">>

\* the move strings and the default forms of SimpleGenGrammar::new
m_Greet == <<"G", "r", "e", "e", "t", "(", ")">>
m_Quit == <<"Q", "u", "i", "t", "(", ")">>
m_icm_neg_sem == <<"i", "c", "m", ":", "n", "e", "g", "*", "s", "e", "m">>
f_Hello == <<"H", "e", "l", "l", "o">>
f_dont_understand == <<"I", " ", "d", "o", "n", "'", "t", " ", "u", "n", "d", "e", "r", "s", "t", "a", "n", "d">>

\* the plan steps of test_domain_creation_and_operations
p_ConsultDB == <<"C", "o", "n", "s", "u", "l", "t", "D", "B">>
p_Respond == <<"R", "e", "s", "p", "o", "n", "d">>

\* the vocabulary of the travel domain and its database (examples/travel.rs)
word ==
    [train |-> <<"t", "r", "a", "i", "n">>,
     plane |-> <<"p", "l", "a", "n", "e">>,
     paris |-> <<"p", "a", "r", "i", "s">>,
     london |-> <<"l", "o", "n", "d", "o", "n">>,
     berlin |-> <<"b", "e", "r", "l", "i", "n">>,
     today |-> <<"t", "o", "d", "a", "y">>,
     tomorrow |-> <<"t", "o", "m", "o", "r", "r", "o", "w">>,
     first |-> <<"f", "i", "r", "s", "t">>,
     second |-> <<"s", "e", "c", "o", "n", "d">>,
     return |-> <<"r", "e", "t", "u", "r", "n">>,
     need_visa |-> <<"n", "e", "e", "d", "-", "v", "i", "s", "a">>,
     price |-> <<"p", "r", "i", "c", "e">>,
     int |-> <<"i", "n", "t">>,
     how |-> <<"h", "o", "w">>,
     means |-> <<"m", "e", "a", "n", "s">>,
     dest_city |-> <<"d", "e", "s", "t", "_", "c", "i", "t", "y">>,
     depart_city |-> <<"d", "e", "p", "a", "r", "t", "_", "c", "i", "t", "y">>,
     depart_day |-> <<"d", "e", "p", "a", "r", "t", "_", "d", "a", "y">>,
     city |-> <<"c", "i", "t", "y">>,
     day |-> <<"d", "a", "y">>,
     class |-> <<"c", "l", "a", "s", "s">>,
     flight_class |-> <<"f", "l", "i", "g", "h", "t", "_", "c", "l", "a", "s", "s">>,
     return_day |-> <<"r", "e", "t", "u", "r", "n", "_", "d", "a", "y">>,
     n232 |-> <<"2", "3", "2">>,
     n345 |-> <<"3", "4", "5">>]

\* lines a user may type, besides words of the vocabulary
say ==
    [empty |-> <<>>,
     quit |-> <<"q", "u", "i", "t">>,
     exit |-> <<"e", "x", "i", "t">>,
     whq_how |-> <<"?", "x", ".", "h", "o", "w", "(", "x", ")">>,
     whq_unknown |-> <<"?", "x", ".", "u", "n", "k", "n", "o", "w", "n", "(", "x", ")">>,
     ynq_return |-> <<"?", "r", "e", "t", "u", "r", "n">>,
     p_empty |-> <<"p", "(", ")">>,
     q_p_empty |-> <<"?", "p", "(", ")">>,
     p_yes |-> <<"p", "(", "y", "e", "s", ")">>,
     digit |-> <<"1", "a">>]

\* texts of the unit tests and of the examples of the notation
txt ==
    [neg_paris |-> <<"-", "p", "a", "r", "i", "s">>,
     city_paris |-> <<"c", "i", "t", "y", "(", "p", "a", "r", "i", "s", ")">>,
     dest_city_paris |-> <<"d", "e", "s", "t", "_", "c", "i", "t", "y", "(", "p", "a", "r", "i", "s", ")">>,
     neg_city_paris |-> <<"-", "c", "i", "t", "y", "(", "p", "a", "r", "i", "s", ")">>,
     return_call |-> <<"r", "e", "t", "u", "r", "n", "(", ")">>,
     expensive |-> <<"e", "x", "p", "e", "n", "s", "i", "v", "e">>,
     neg_expensive |-> <<"-", "e", "x", "p", "e", "n", "s", "i", "v", "e">>,
     ynq_expensive |-> <<"?", "e", "x", "p", "e", "n", "s", "i", "v", "e">>,
     ynq_city_paris |-> <<"?", "c", "i", "t", "y", "(", "p", "a", "r", "i", "s", ")">>,
     whq_city |-> <<"?", "x", ".", "c", "i", "t", "y", "(", "x", ")">>,
     whq_p |-> <<"?", "x", ".", "p", "(", "x", ")">>,
     p_p |-> <<"p", "(", "p", ")">>,
     invalid_syntax |-> <<"i", "n", "v", "a", "l", "i", "d", "(", "s", "y", "n", "t", "a", "x">>,
     digits_first |-> <<"1", "2", "3", "i", "n", "v", "a", "l", "i", "d">>,
     with_colon |-> <<"a", "t", "o", "m", ":", "w", "i", "t", "h", ":", "c", "o", "l", "o", "n">>,
     with_plus |-> <<"a", "t", "o", "m", "+", "w", "i", "t", "h", "+", "p", "l", "u", "s">>,
     at_char |-> <<"i", "n", "v", "a", "l", "i", "d", "@", "c", "h", "a", "r">>,
     available |-> <<"a", "v", "a", "i", "l", "a", "b", "l", "e">>,
     location |-> <<"l", "o", "c", "a", "t", "i", "o", "n">>,
     transport |-> <<"t", "r", "a", "n", "s", "p", "o", "r", "t">>,
     vehicle |-> <<"v", "e", "h", "i", "c", "l", "e">>,
     city_plane |-> <<"c", "i", "t", "y", "(", "p", "l", "a", "n", "e", ")">>,
     city_berlin |-> <<"c", "i", "t", "y", "(", "b", "e", "r", "l", "i", "n", ")">>,
     expensive_paris |-> <<"e", "x", "p", "e", "n", "s", "i", "v", "e", "(", "p", "a", "r", "i", "s", ")">>,
     transport_plane |-> <<"t", "r", "a", "n", "s", "p", "o", "r", "t", "(", "p", "l", "a", "n", "e", ")">>,
     whq_wrapped |-> <<"?", "x", ".", "?", "x", ".", "p", "(", "x", ")", "(", "x", ")">>]

None == <<>>
Some(v) == <<v>>

Letters ==
    {"a","b","c","d","e","f","g","h","i","j","k","l","m","n","o","p","q","r","s",
     "t","u","v","w","x","y","z","A","B","C","D","E","F","G","H","I","J","K","L",
     "M","N","O","P","Q","R","S","T","U","V","W","X","Y","Z"}
Digits == {"0","1","2","3","4","5","6","7","8","9"}

is_alphabetic(c) == c \in Letters
is_alphanumeric(c) == c \in Letters \cup Digits

starts_with(s, p) == Len(s) >= Len(p) /\ SubSeq(s, 1, Len(p)) = p
ends_with(s, p) == Len(s) >= Len(p) /\ SubSeq(s, Len(s) - Len(p) + 1, Len(s)) = p
contains(s, c) == \E i \in 1..Len(s) : s[i] = c

\* str::split(c): the pieces between the occurrences of c, in order
RECURSIVE split(_, _)
split(s, c) ==
    IF ~contains(s, c) THEN <<s>>
    ELSE LET i == CHOOSE k \in 1..Len(s) : s[k] = c /\ \A j \in 1..(k - 1) : s[j] # c
         IN  <<SubSeq(s, 1, i - 1)>> \o split(SubSeq(s, i + 1, Len(s)), c)

\* [String]::join(sep)
RECURSIVE join(_, _)
join(parts, sep) ==
    IF parts = <<>> THEN <<>>
    ELSE IF Len(parts) = 1 THEN parts[1]
    ELSE parts[1] \o sep \o join(Tail(parts), sep)

Ok(v) == [tag |-> "Ok", val |-> v]
Err == [tag |-> "Err"]
Panic == [tag |-> "Panic"]

----------------------------------------------------------------------------
(* Semantic types: text constructors and Display *)

\* Atomic::new without the test of the reserved words
Atomic_new_accepts_reserved(atom) ==
    IF atom = <<>> THEN [tag |-> "Err"]
    ELSE IF ~is_alphabetic(atom[1]) THEN [tag |-> "Err"]
    ELSE IF ~(\A i \in 1..Len(atom) :
                is_alphanumeric(atom[i]) \/ atom[i] \in {"_", "-", "+", ":"}) THEN [tag |-> "Err"]
    ELSE [tag |-> "Ok", val |-> atom]

\* Atomic::new; an Atomic (and its wrappers Ind, Pred0, Pred1) is its content
Atomic_new(atom) ==
    IF atom = <<>> \/ atom = s_yes \/ atom = s_no THEN Err
    ELSE IF ~is_alphabetic(atom[1]) THEN Err
    ELSE IF ~(\A i \in 1..Len(atom) :
                is_alphanumeric(atom[i]) \/ atom[i] \in {"_", "-", "+", ":"}) THEN Err
    ELSE Ok(atom)

Ind_new(atom) == Atomic_new(atom)
Pred0_new(atom) == Atomic_new(atom)
Pred1_new(atom) == Atomic_new(atom)

\* Prop::new: Ind::new(..).unwrap() panics on an invalid individual name
Prop_new(s) ==
    LET yes == ~starts_with(s, <<"-">>)
        rest == IF yes THEN s ELSE SubSeq(s, 2, Len(s))
        parts == split(SubSeq(rest, 1, Len(rest) - 1), "(")
        hasInd == ends_with(rest, <<")">>) /\ Len(parts) = 2
        pred_str == IF hasInd THEN parts[1] ELSE rest
        pred == Pred0_new(pred_str)
    IN  IF pred.tag # "Ok" THEN Err
        ELSE IF ~hasInd THEN Ok([pred |-> pred.val, ind |-> None, yes |-> yes])
        ELSE IF Ind_new(parts[2]).tag # "Ok" THEN Panic
        ELSE Ok([pred |-> pred.val, ind |-> Some(parts[2]), yes |-> yes])

\* impl Display for Prop
Prop_display(p) ==
    (IF p.yes THEN <<>> ELSE <<"-">>) \o p.pred \o <<"(">>
        \o (IF p.ind = None THEN <<>> ELSE p.ind[1]) \o <<")">>

\* ShortAns::new
ShortAns_new(s) ==
    LET yes == ~starts_with(s, <<"-">>)
        ind == Ind_new(IF yes THEN s ELSE SubSeq(s, 2, Len(s)))
    IN  IF ind.tag # "Ok" THEN Err ELSE Ok([ind |-> ind.val, yes |-> yes])

\* YesNo::new
YesNo_new(s) ==
    IF s = s_yes THEN Ok([yes |-> TRUE])
    ELSE IF s = s_no THEN Ok([yes |-> FALSE])
    ELSE Err

\* Ans::new: the variant is kept in the field kind
Ans_new(s) ==
    IF s = s_yes \/ s = s_no THEN
        LET r == YesNo_new(s)
        IN  IF r.tag = "Ok" THEN Ok([kind |-> "YesNo", yes |-> r.val.yes]) ELSE r
    ELSE IF ~contains(s, "(") /\ ~contains(s, ")") THEN
        LET r == ShortAns_new(s)
        IN  IF r.tag = "Ok" THEN Ok([kind |-> "ShortAns", ind |-> r.val.ind, yes |-> r.val.yes])
            ELSE r
    ELSE IF contains(s, "(") /\ ends_with(s, <<")">>) THEN
        LET r == Prop_new(s)
        IN  IF r.tag = "Ok" THEN Ok([kind |-> "Prop", prop |-> r.val]) ELSE r
    ELSE Err

\* WhQ::new
WhQ_new(pred) ==
    LET name == IF starts_with(pred, <<"?", "x", ".">>) /\ ends_with(pred, <<"(", "x", ")">>)
                THEN SubSeq(pred, 4, Len(pred) - 3) ELSE pred
        p == Pred1_new(name)
    IN  IF p.tag # "Ok" THEN Err ELSE Ok([kind |-> "WhQ", pred |-> p.val])

\* impl Display for WhQ
WhQ_display(q) == <<"?", "x", ".">> \o q.pred \o <<" ", "(", "x", ")">>

\* YNQ::new
YNQ_new(prop) ==
    LET r == Prop_new(IF starts_with(prop, <<"?">>) THEN SubSeq(prop, 2, Len(prop)) ELSE prop)
    IN  IF r.tag # "Ok" THEN r ELSE Ok([kind |-> "YNQ", prop |-> r.val])

\* impl Display for YNQ
YNQ_display(q) == <<"?">> \o Prop_display(q.prop)

\* impl Display for AltQ
AltQ_display(q) ==
    <<"{", " ">> \o join([i \in 1..Len(q.ynqs) |-> YNQ_display(q.ynqs[i])], <<" ", "|", " ">>)
        \o <<" ", "}">>

\* Question::new
Question_new(s) ==
    IF starts_with(s, <<"?", "x", ".">>) /\ ends_with(s, <<"(", "x", ")">>)
    THEN WhQ_new(SubSeq(s, 4, Len(s) - 3))
    ELSE IF starts_with(s, <<"?">>) THEN YNQ_new(SubSeq(s, 2, Len(s)))
    ELSE Err

\* impl Display for Question
Question_display(q) ==
    CASE q.kind = "WhQ" -> WhQ_display(q)
      [] q.kind = "YNQ" -> YNQ_display(q)
      [] q.kind = "AltQ" -> AltQ_display(q)

\* impl Display for Atomic, Ind, Pred0, Pred1: the content is written
Atomic_display(a) == a

\* impl Display for ShortAns, YesNo, Ans
ShortAns_display(a) == (IF a.yes THEN <<>> ELSE <<"-">>) \o Atomic_display(a.ind)
YesNo_display(a) == IF a.yes THEN s_yes ELSE s_no
Ans_display(a) ==
    CASE a.kind = "Prop" -> Prop_display(a.prop)
      [] a.kind = "ShortAns" -> ShortAns_display(a)
      [] a.kind = "YesNo" -> YesNo_display(a)

----------------------------------------------------------------------------
(* Containers.  A type_constraint closure is modelled by its name, and      *)
(* check(name, v) is the closure applied to v.                              *)

check(name, v) ==
    CASE name = "any" -> TRUE                         \* |_: &String| true
      [] name = "len_gt_2" -> Len(v) > 2               \* |s: &String| s.len() > 2
      [] name = "starts_with_valid" ->                 \* |s: &String| s.starts_with("valid_")
            starts_with(v, <<"v", "a", "l", "i", "d", "_">>)
      [] name = "len_le_5" -> Len(v) <= 5              \* |s: &String| s.len() <= 5

\* Value::new_allowed, Value::new_type
Value_new_allowed(allowed) == [value |-> None, allowed_values |-> allowed, type_constraint |-> None]
Value_new_type(type_check) == [value |-> None, allowed_values |-> {}, type_constraint |-> Some(type_check)]

\* Value::set: whether it returns Ok, and the cell after the call
Value_set_ok(self, value) ==
    /\ ~(self.allowed_values # {} /\ value \notin self.allowed_values)
    /\ (self.type_constraint # None => check(self.type_constraint[1], value))
Value_set(self, value) ==
    IF Value_set_ok(self, value) THEN [self EXCEPT !.value = Some(value)] ELSE self

\* Value::get
Value_get(self) == self.value

\* Stack::new, with_type, push, pop, clear
Stack_new == [elements |-> <<>>, type_constraint |-> None]
Stack_with_type(type_check) == [elements |-> <<>>, type_constraint |-> Some(type_check)]
Stack_push_ok(self, value) ==
    self.type_constraint # None => check(self.type_constraint[1], value)
Stack_push(self, value) ==
    IF Stack_push_ok(self, value) THEN [self EXCEPT !.elements = Append(@, value)] ELSE self
Stack_pop(self) == [self EXCEPT !.elements = SubSeq(@, 1, Len(@) - 1)]
Stack_top(self) == self.elements[Len(self.elements)]
Stack_clear(self) == [self EXCEPT !.elements = <<>>]

\* StackSet::new
StackSet_new == [stack |-> Stack_new]

\* StackSet::contains
StackSet_contains(self, value) ==
    \E i \in 1..Len(self.stack.elements) : self.stack.elements[i] = value

\* StackSet::push without the removal of the instance already held
StackSet_push_keeps_instance(self, value) ==
    [self EXCEPT !.stack = Stack_push(@, value)]

\* StackSet::push: an instance already held is removed, then Stack::push
StackSet_push(self, value) ==
    LET retained ==
            IF StackSet_contains(self, value)
            THEN [self EXCEPT !.stack.elements = SelectSeq(@, LAMBDA x : x # value)]
            ELSE self
    IN  [retained EXCEPT !.stack = Stack_push(@, value)]

\* TSet::new, with_type, add, clear
TSet_new == [elements |-> {}, type_constraint |-> None]
TSet_with_type(type_check) == [elements |-> {}, type_constraint |-> Some(type_check)]
TSet_add_ok(self, value) ==
    self.type_constraint # None => check(self.type_constraint[1], value)
\* TSet::add without the type check
TSet_add_unchecked(self, value) == [self EXCEPT !.elements = @ \cup {value}]
TSet_add(self, value) ==
    IF TSet_add_ok(self, value) THEN [self EXCEPT !.elements = @ \cup {value}] ELSE self
TSet_clear(self) == [self EXCEPT !.elements = {}]

\* a for loop of add(..).ok() over a collection: each value that passes is added
TSet_add_each(self, values) ==
    [self EXCEPT !.elements = @ \cup {v \in values : TSet_add_ok(self, v)}]

----------------------------------------------------------------------------
(* Input handler *)

\* DemoInputHandler::new
DemoInputHandler_new(lines) == lines

\* DemoInputHandler::read_line: the line returned (None at end of input)
read_line_result(queue) == IF queue # <<>> THEN Some(Head(queue)) ELSE None
\* a read_line that leaves the line it returns in the queue
read_line_queue_no_pop(queue) == queue
\* ... and the queue after the call (pop_front)
read_line_queue(queue) == IF queue # <<>> THEN Tail(queue) ELSE queue
\* ... and what it prints
read_line_print(queue) ==
    IF queue # <<>> THEN [who |-> "U", text |-> Head(queue)]
    ELSE [who |-> "notice", text |-> <<>>]

\* DemoInputHandler::has_input
has_input(queue) == queue # <<>>

\* str::trim: white space is taken off both ends
RECURSIVE trim(_)
trim(s) ==
    LET white == {" ", "\n", "\t", "\r"}
    IN  IF s # <<>> /\ s[1] \in white THEN trim(Tail(s))
        ELSE IF s # <<>> /\ s[Len(s)] \in white THEN trim(SubSeq(s, 1, Len(s) - 1))
        ELSE s

\* StandardInputHandler::read_line, given what io::stdin().read_line returned
\* (Ok with the text it appended to the buffer, or Err)
StandardInputHandler_read_line(outcome) ==
    IF outcome.tag = "Ok" THEN Some(trim(outcome.val)) ELSE None

----------------------------------------------------------------------------
(* Grammar *)

\* SimpleGenGrammar::new: the default forms
SimpleGenGrammar_new ==
    [m \in {m_Greet, m_icm_neg_sem} |-> IF m = m_Greet THEN f_Hello ELSE f_dont_understand]

\* SimpleGenGrammar::generate_move
generate_move(forms, move_str) ==
    IF move_str \in DOMAIN forms THEN forms[move_str] ELSE move_str

\* SimpleGenGrammar::join_phrases
RECURSIVE join_phrases_loop(_, _)
join_phrases_loop(result, phrases) ==
    IF phrases = <<>> THEN result
    ELSE LET p == Head(phrases)
             r1 == IF result # <<>> THEN result \o <<" ">> ELSE result
             r2 == r1 \o p
             r3 == IF ~ends_with(p, <<".">>) /\ ~ends_with(p, <<"?">>) /\ ~ends_with(p, <<"!">>)
                   THEN r2 \o <<".">> ELSE r2
         IN  join_phrases_loop(r3, Tail(phrases))
join_phrases(phrases) == join_phrases_loop(<<>>, phrases)

\* the orders in which a HashSet may be iterated
Orders(S) ==
    {f \in [1..Cardinality(S) -> S] : \A i, j \in 1..Cardinality(S) : i # j => f[i] # f[j]}

\* SimpleGenGrammar::generate: one output per iteration order of the move set
generate_outcomes(forms, moves) ==
    {join_phrases([i \in 1..Len(o) |-> generate_move(forms, o[i])]) : o \in Orders(moves.elements)}

\* the move strings built by interpret
Ask_of(input) == <<"A", "s", "k", "(", "'">> \o input \o <<"'", ")">>
Answer_of(input) == <<"A", "n", "s", "w", "e", "r", "(">> \o input \o <<")">>

\* SimpleGenGrammar::interpret: Some(moves), None, or a panic inside a constructor
interpret(input) ==
    IF input = say.quit \/ input = say.exit THEN [tag |-> "Some", val |-> TSet_add(TSet_new, m_Quit)]
    ELSE LET q == Question_new(input)
         IN  IF q.tag = "Panic" THEN Panic
             ELSE IF q.tag = "Ok" THEN [tag |-> "Some", val |-> TSet_add(TSet_new, Ask_of(input))]
             ELSE LET a == Ans_new(input)
                  IN  IF a.tag = "Panic" THEN Panic
                      ELSE IF a.tag = "Ok"
                           THEN [tag |-> "Some", val |-> TSet_add(TSet_new, Answer_of(input))]
                      ELSE [tag |-> "None"]

----------------------------------------------------------------------------
(* Domain *)

\* HashMap::insert
Insert(map, key, value) ==
    [k \in (DOMAIN map) \cup {key} |-> IF k = key THEN value ELSE map[k]]

\* Domain::new: the index is collected from the (sort, individual) pairs into a
\* HashMap, so an individual listed under several sorts keeps one of them, the
\* one iterated last
Domain_new_outcomes(preds0, preds1, sorts) ==
    LET all == UNION {sorts[s] : s \in DOMAIN sorts}
    IN  { [preds0 |-> preds0, preds1 |-> preds1, sorts |-> sorts, inds |-> inds,
           plans |-> [k \in {} |-> <<>>]] :
          inds \in {f \in [all -> DOMAIN sorts] : \A i \in all : i \in sorts[f[i]]} }

\* impl Type for Ind, Pred0, Pred1, Prop, WhQ, YNQ, AltQ, Question: TRUE is Ok(());
\* Prop_typecheck_no_sort is the typecheck of a Prop without the sort comparison
Ind_typecheck(ind, context) == ind \in DOMAIN context.inds
Pred0_typecheck(pred, context) == pred \in context.preds0
Pred1_typecheck(pred, context) == pred \in DOMAIN context.preds1
Prop_typecheck_no_sort(p, context) ==
    /\ p.pred \in context.preds0
    /\ p.ind # <<>> => p.ind[1] \in DOMAIN context.inds
Prop_typecheck(p, context) ==
    /\ Pred0_typecheck(p.pred, context)
    /\ p.ind # None =>
         /\ Ind_typecheck(p.ind[1], context)
         /\ p.pred \in DOMAIN context.preds1 =>
              context.inds[p.ind[1]] = context.preds1[p.pred]
WhQ_typecheck(q, context) == Pred1_typecheck(q.pred, context)
YNQ_typecheck(q, context) == Prop_typecheck(q.prop, context)
AltQ_typecheck(q, context) == \A i \in 1..Len(q.ynqs) : YNQ_typecheck(q.ynqs[i], context)
Question_typecheck(q, context) ==
    CASE q.kind = "WhQ" -> WhQ_typecheck(q, context)
      [] q.kind = "YNQ" -> YNQ_typecheck(q, context)
      [] q.kind = "AltQ" -> AltQ_typecheck(q, context)

\* HashMap::get
Get(map, key) == IF key \in DOMAIN map THEN Some(map[key]) ELSE None

\* relevant() that takes every proposition to answer every WhQ
relevant_any_predicate(self, answer, question) ==
    CASE answer.kind = "Prop" /\ question.kind = "WhQ" -> TRUE
      [] answer.kind = "ShortAns" /\ question.kind = "WhQ" ->
            /\ Get(self.inds, answer.ind) # None
            /\ Get(self.inds, answer.ind) = Get(self.preds1, question.pred)
      [] answer.kind = "YesNo" /\ question.kind \in {"YNQ", "AltQ"} -> TRUE
      [] answer.kind = "Prop" /\ question.kind = "YNQ" -> answer.prop = question.prop
      [] answer.kind = "Prop" /\ question.kind = "AltQ" ->
            \E i \in 1..Len(question.ynqs) : answer.prop = question.ynqs[i].prop
      [] OTHER -> FALSE

\* Domain::relevant
relevant(self, answer, question) ==
    CASE answer.kind = "Prop" /\ question.kind = "WhQ" -> answer.prop.pred = question.pred
      [] answer.kind = "ShortAns" /\ question.kind = "WhQ" ->
            LET sort1 == Get(self.inds, answer.ind)
                sort2 == Get(self.preds1, question.pred)
            IN  sort1 # None /\ sort2 # None /\ sort1 = sort2
      [] answer.kind = "YesNo" /\ question.kind = "YNQ" -> TRUE
      [] answer.kind = "Prop" /\ question.kind = "YNQ" -> answer.prop = question.prop
      [] answer.kind = "Prop" /\ question.kind = "AltQ" ->
            \E i \in 1..Len(question.ynqs) : answer.prop = question.ynqs[i].prop
      [] answer.kind = "YesNo" /\ question.kind = "AltQ" -> TRUE
      [] OTHER -> FALSE

\* resolves() that does not look at the polarity of a short answer
resolves_any_polarity(self, answer, question) ==
    /\ relevant(self, answer, question)
    /\ CASE answer.kind = "YesNo" /\ question.kind = "YNQ" -> TRUE
         [] answer.kind = "ShortAns" /\ question.kind = "WhQ" -> TRUE
         [] answer.kind = "Prop" /\ question.kind = "WhQ" -> answer.prop.yes
         [] OTHER -> FALSE

\* Domain::resolves
resolves(self, answer, question) ==
    IF relevant(self, answer, question)
    THEN CASE answer.kind = "YesNo" /\ question.kind = "YNQ" -> TRUE
           [] answer.kind = "ShortAns" /\ question.kind = "WhQ" -> answer.yes
           [] answer.kind = "Prop" /\ question.kind = "WhQ" -> answer.prop.yes
           [] OTHER -> FALSE
    ELSE FALSE

\* Pred1::apply
Pred1_apply(self, ind) ==
    LET pred == Pred0_new(self)
    IN  IF pred.tag # "Ok" THEN Err ELSE Ok([pred |-> pred.val, ind |-> Some(ind), yes |-> TRUE])

\* combine() that returns the proposition of a YNQ as it is stored
combine_keeps_polarity(self, question, answer) ==
    IF ~relevant(self, answer, question) THEN [tag |-> "Panic"]
    ELSE CASE question.kind = "WhQ" /\ answer.kind = "ShortAns" ->
                [tag |-> "Ok",
                 val |-> [pred |-> question.pred, ind |-> <<answer.ind>>, yes |-> answer.yes]]
           [] question.kind = "YNQ" /\ answer.kind = "YesNo" ->
                [tag |-> "Ok", val |-> question.prop]
           [] OTHER ->
                IF answer.kind = "Prop" THEN [tag |-> "Ok", val |-> answer.prop]
                ELSE [tag |-> "Panic"]

\* Domain::combine: assert!(relevant) and the last arm panic
combine(self, question, answer) ==
    IF ~relevant(self, answer, question) THEN Panic
    ELSE CASE question.kind = "WhQ" /\ answer.kind = "ShortAns" ->
                LET prop == Pred1_apply(question.pred, answer.ind)
                IN  IF prop.tag # "Ok" THEN Err
                    ELSE IF ~answer.yes THEN Ok([prop.val EXCEPT !.yes = FALSE])
                    ELSE Ok(prop.val)
           [] question.kind = "YNQ" /\ answer.kind = "YesNo" ->
                LET prop == question.prop
                IN  IF prop.yes # answer.yes THEN Ok([prop EXCEPT !.yes = ~prop.yes])
                    ELSE Ok(prop)
           [] OTHER ->
                IF answer.kind = "Prop" THEN Ok(answer.prop) ELSE Panic

\* Domain::add_plan: the Domain after the call
add_plan(self, trigger, plan) ==
    [self EXCEPT !.plans = Insert(@, Question_display(trigger), plan)]

\* the elements of a sequence pushed onto a new Stack, last first
RECURSIVE push_rev(_, _)
push_rev(stack, plan) ==
    IF plan = <<>> THEN stack
    ELSE push_rev(Stack_push(stack, plan[Len(plan)]), SubSeq(plan, 1, Len(plan) - 1))

\* get_plan that pushes the steps in their declared order
get_plan_unreversed(self, question) ==
    IF Question_display(question) \in DOMAIN self.plans
    THEN Some([Stack_new EXCEPT !.elements = self.plans[Question_display(question)]])
    ELSE None

\* Domain::get_plan
get_plan(self, question) ==
    IF Question_display(question) \in DOMAIN self.plans
    THEN Some(push_rev(Stack_new, self.plans[Question_display(question)]))
    ELSE None

\* the travel domain of examples/travel.rs
travel_preds0 == {word.return, word.need_visa}
travel_preds1 ==
    [p \in {word.price, word.how, word.dest_city, word.depart_city, word.depart_day, word.class, word.return_day} |->
        CASE p = word.price -> word.int
          [] p = word.how -> word.means
          [] p \in {word.dest_city, word.depart_city} -> word.city
          [] p \in {word.depart_day, word.return_day} -> word.day
          [] p = word.class -> word.flight_class]
travel_sorts ==
    [s \in {word.means, word.city, word.day, word.flight_class} |->
        CASE s = word.means -> {word.plane, word.train}
          [] s = word.city -> {word.paris, word.london, word.berlin}
          [] s = word.day -> {word.today, word.tomorrow}
          [] s = word.flight_class -> {word.first, word.second}]
travel_domains == Domain_new_outcomes(travel_preds0, travel_preds1, travel_sorts)

\* impl Display for Findout, ConsultDB, If
Findout_display(q) ==
    <<"F", "i", "n", "d", "o", "u", "t", "(", "'">> \o Question_display(q) \o <<"'", ")">>
ConsultDB_display(q) ==
    <<"C", "o", "n", "s", "u", "l", "t", "D", "B", "(", "'">> \o Question_display(q) \o <<"'", ")">>
If_display(cond, iftrue, iffalse) ==
    <<"I", "f", "(", "'">> \o Question_display(cond) \o <<"'", ",", " ">>
        \o join(iftrue, <<",", " ">>) \o <<",", " ">> \o join(iffalse, <<",", " ">>) \o <<")">>

\* impl Type for If: the branches are lists of strings, only cond is checked
If_typecheck(cond, iftrue, iffalse, context) == Question_typecheck(cond, context)

\* the questions of the travel plan, and the plan registered for ?x.price(x)
travel_whq(pred) == [kind |-> "WhQ", pred |-> pred]
travel_ynq_return == [kind |-> "YNQ", prop |-> [pred |-> word.return, ind |-> None, yes |-> TRUE]]
travel_plan ==
    << Findout_display(travel_whq(word.how)),
       Findout_display(travel_whq(word.dest_city)),
       Findout_display(travel_whq(word.depart_city)),
       Findout_display(travel_whq(word.depart_day)),
       Findout_display(travel_whq(word.class)),
       Findout_display(travel_ynq_return),
       If_display(travel_ynq_return, <<Findout_display(travel_whq(word.return_day))>>, <<>>),
       ConsultDB_display(travel_whq(word.price)) >>

\* the scripted user lines of the travel scenario
travel_script == <<word.train, word.paris, word.berlin, word.today, word.first, s_no>>

----------------------------------------------------------------------------
(* Database *)

\* TravelDB::get_context: the context is a HashSet, so when several of its
\* propositions have the predicate, any of them may be the first one met
get_context_outcomes(context, pred) ==
    LET found == {prop \in context.elements : prop.pred = pred}
    IN  IF found = {} THEN {None} ELSE {prop.ind : prop \in found}

\* TravelDB::lookup_entry: the first entry equal on from, to and day
lookup_entry(entries, depart_city, dest_city, day) ==
    LET hits == {i \in 1..Len(entries) :
                   /\ Get(entries[i], "from") = Some(depart_city)
                   /\ Get(entries[i], "to") = Some(dest_city)
                   /\ Get(entries[i], "day") = Some(day)}
    IN  IF hits = {} THEN None
        ELSE Some(entries[CHOOSE i \in hits : \A j \in hits : i <= j])

\* TravelDB::consult_db: the proposition returned, or the panic of one of the
\* expect and unwrap calls
consult_db_outcomes(entries, question, context) ==
    { LET entry == lookup_entry(entries,
                                IF dc = None THEN <<>> ELSE dc[1],
                                IF dest = None THEN <<>> ELSE dest[1],
                                IF day = None THEN <<>> ELSE day[1])
      IN  IF entry = None THEN Panic
          ELSE IF Get(entry[1], "price") = None THEN Panic
          ELSE IF Ind_new(entry[1].price).tag # "Ok" THEN Panic
          ELSE Ok([pred |-> Pred0_new(word.price).val, ind |-> Some(entry[1].price),
                   yes |-> TRUE]) :
      dc \in get_context_outcomes(context, word.depart_city),
      dest \in get_context_outcomes(context, word.dest_city),
      day \in get_context_outcomes(context, word.depart_day) }

\* the database of examples/travel.rs
travel_db ==
    << [price |-> word.n232, from |-> word.berlin, to |-> word.paris, day |-> word.today],
       [price |-> word.n345, from |-> word.paris, to |-> word.london, day |-> word.today] >>

----------------------------------------------------------------------------
(* IBISController *)

\* IBISInfostate::init_is: the fields of the Record
init_is ==
    [agenda |-> Stack_new, plan |-> Stack_new, bel |-> TSet_new, com |-> TSet_new,
     qud |-> StackSet_new]

\* IBISController::with_input_handler: the MIVS of a new controller
new_mivs ==
    [input |-> Value_new_type("any"),
     latest_speaker |-> Value_new_allowed({"USR", "SYS"}),
     latest_moves |-> TSet_new,
     next_moves |-> Stack_new,
     output |-> Value_new_type("any"),
     program_state |-> Value_new_allowed({"RUN", "QUIT"})]

\* init_mivs that leaves the program state unset
init_mivs_unset == new_mivs

\* StandardMIVS::init_mivs
init_mivs ==
    [new_mivs EXCEPT !.program_state = Value_set(Value_new_allowed({"RUN", "QUIT"}), "RUN")]

\* control() that forgets the Greet move
control_start_no_greet(m) == m

\* IBISController::control, before the loop: the Greet move is pushed
control_start(m) == [m EXCEPT !.next_moves = Stack_push(@, m_Greet)]

\* IBISController::control: the loop condition
loop_continues(m) == Value_get(m.program_state) # Some("QUIT")

\* IBISController::select (a placeholder)
select(m) == m

\* IBISController::generate: the MIVS after it, for one rendering of the moves
generate(m, rendered) == [m EXCEPT !.output = Value_set(@, rendered)]

\* output() that forgets to clear next_moves
output_keeps_next_moves(m) ==
    [m EXCEPT !.latest_speaker = Value_set(@, "SYS"),
              !.latest_moves = TSet_add_each(TSet_clear(@),
                                   {m.next_moves.elements[i] : i \in 1..Len(m.next_moves.elements)})]

\* IBISController::output
output(m) ==
    [m EXCEPT !.latest_speaker = Value_set(@, "SYS"),
              !.latest_moves = TSet_add_each(TSet_clear(@),
                                   {m.next_moves.elements[i] : i \in 1..Len(m.next_moves.elements)}),
              !.next_moves = Stack_clear(@)]

\* IBISController::input, given what read_line returned
input(m, line) ==
    IF line # None
    THEN [m EXCEPT !.input = Value_set(@, line[1]),
                   !.latest_speaker = Value_set(@, "USR")]
    ELSE [m EXCEPT !.program_state = Value_set(@, "QUIT")]

\* interpret() that ends the session on a Quit move
interpret_step_quits(m) ==
    LET cleared == [m EXCEPT !.latest_moves = TSet_clear(@)]
        line == Value_get(m.input)
    IN  IF line # None /\ line[1] # <<>> /\ interpret(line[1]).tag = "Some"
        THEN [cleared EXCEPT !.latest_moves = TSet_add_each(@, interpret(line[1]).val.elements),
                             !.program_state =
                                 IF m_Quit \in interpret(line[1]).val.elements
                                 THEN Value_set(@, "QUIT") ELSE @]
        ELSE cleared

\* interpret() that forgets to clear latest_moves
interpret_step_keeps_moves(m) ==
    LET line == Value_get(m.input)
    IN  IF line # None /\ line[1] # <<>> /\ interpret(line[1]).tag = "Some"
        THEN [m EXCEPT !.latest_moves = TSet_add_each(@, interpret(line[1]).val.elements)]
        ELSE m

\* IBISController::interpret, when no constructor panics
interpret_step(m) ==
    LET cleared == [m EXCEPT !.latest_moves = TSet_clear(@)]
        line == Value_get(m.input)
    IN  IF line # None /\ line[1] # <<>> /\ interpret(line[1]).tag = "Some"
        THEN [cleared EXCEPT !.latest_moves =
                 TSet_add_each(@, interpret(line[1]).val.elements)]
        ELSE cleared

\* IBISController::interpret: whether it prints "Did not understand"
not_understood(m) ==
    LET line == Value_get(m.input)
    IN  line # None /\ line[1] # <<>> /\ interpret(line[1]).tag = "None"

\* IBISController::interpret: whether a constructor called by the grammar panics
interpret_panics(m) ==
    LET line == Value_get(m.input)
    IN  line # None /\ line[1] # <<>> /\ interpret(line[1]).tag = "Panic"

\* IBISController::update (a placeholder)
update(m, s) == <<m, s>>

\* DialogueManager::print_state after a system turn shows LATEST_MOVES; the
\* transcript keeps the "S> " line together with the moves of that dump
system_turn(m) ==
    [who |-> "S",
     text |-> IF Value_get(m.output) = None THEN <<"[", "-", "-", "-", "]">>
              ELSE Value_get(m.output)[1],
     moves |-> output(m).latest_moves.elements]

\* the lines a user may type
Utterances ==
    {say.empty, say.quit, say.exit, word.train, s_no, say.whq_how, say.p_empty, say.q_p_empty, say.p_yes, say.digit}

\* all sequences over S of length at most n
BoundedSeq(S, n) == UNION {[1..k -> S] : k \in 0..n}

Scripts == BoundedSeq(Utterances, MaxLines) \cup {travel_script}

\* the Domain a controller is built with: the travel domain, with or without the plan
ControllerDomains ==
    travel_domains \cup {add_plan(d, travel_whq(word.price), travel_plan) : d \in travel_domains}

NoCall == [op |-> "none"]

Init ==
    /\ pc = "new"
    /\ mivs = new_mivs
    /\ is = [k \in {} |-> Stack_new]
    /\ domain \in ControllerDomains
    /\ script \in Scripts
    /\ inputs = DemoInputHandler_new(script)
    /\ transcript = <<>>
    /\ call = NoCall

\* DialogueManager::run: reset()
Reset ==
    /\ pc = "new"
    /\ is' = init_is
    /\ mivs' = init_mivs
    /\ pc' = "control"
    /\ UNCHANGED <<domain, inputs, script, transcript, call>>

\* DialogueManager::run: control(), up to the loop
ControlStart ==
    /\ pc = "control"
    /\ mivs' = control_start(mivs)
    /\ pc' = IF Stack_push_ok(mivs.next_moves, m_Greet) THEN "loop" ELSE "aborted"
    /\ UNCHANGED <<is, domain, inputs, script, transcript, call>>

\* the while condition of control()
LoopCheck ==
    /\ pc = "loop"
    /\ pc' = IF loop_continues(mivs) THEN "select" ELSE "done"
    /\ UNCHANGED <<mivs, is, domain, inputs, script, transcript, call>>

\* select(), then the test of next_moves
Select ==
    /\ pc = "select"
    /\ mivs' = select(mivs)
    /\ pc' = IF select(mivs).next_moves.elements # <<>> THEN "generate" ELSE "input"
    /\ UNCHANGED <<is, domain, inputs, script, transcript, call>>

Generate ==
    /\ pc = "generate"
    /\ \E rendered \in generate_outcomes(SimpleGenGrammar_new,
                                          TSet_add_each(TSet_new,
                                              {mivs.next_moves.elements[i] :
                                                  i \in 1..Len(mivs.next_moves.elements)})) :
          /\ mivs' = generate(mivs, rendered)
          /\ pc' = IF Value_set_ok(mivs.output, rendered) THEN "output" ELSE "aborted"
    /\ UNCHANGED <<is, domain, inputs, script, transcript, call>>

Output ==
    /\ pc = "output"
    /\ mivs' = output(mivs)
    /\ transcript' = Append(transcript, system_turn(mivs))
    /\ pc' = IF Value_set_ok(mivs.latest_speaker, "SYS") THEN "update_sys" ELSE "aborted"
    /\ UNCHANGED <<is, domain, inputs, script, call>>

\* update() after the system turn and after the user turn
Update ==
    /\ pc \in {"update_sys", "update_usr"}
    /\ mivs' = update(mivs, is)[1]
    /\ is' = update(mivs, is)[2]
    /\ pc' = IF pc = "update_sys" THEN "input" ELSE "loop"
    /\ UNCHANGED <<domain, inputs, script, transcript, call>>

Input ==
    /\ pc = "input"
    /\ mivs' = input(mivs, read_line_result(inputs))
    /\ inputs' = read_line_queue(inputs)
    /\ transcript' = Append(transcript, read_line_print(inputs))
    /\ pc' = "interpret"
    /\ UNCHANGED <<is, domain, script, call>>

Interpret ==
    /\ pc = "interpret"
    /\ IF interpret_panics(mivs)
       THEN /\ pc' = "aborted"
            /\ mivs' = [mivs EXCEPT !.latest_moves = TSet_clear(@)]
            /\ UNCHANGED transcript
       ELSE /\ pc' = "update_usr"
            /\ mivs' = interpret_step(mivs)
            /\ transcript' =
                 IF not_understood(mivs)
                 THEN Append(transcript,
                             [who |-> "not_understood", text |-> Value_get(mivs.input)[1]])
                 ELSE transcript
    /\ UNCHANGED <<is, domain, inputs, script, call>>

Next ==
    \/ Reset
    \/ ControlStart
    \/ LoopCheck
    \/ Select
    \/ Generate
    \/ Output
    \/ Update
    \/ Input
    \/ Interpret

Spec == Init /\ [][Next]_vars

----------------------------------------------------------------------------
(* A client of the Domain registry: add_plan and get_plan called directly *)

\* the texts the triggers are parsed from; unknown is no predicate of the travel domain
TriggerTexts == {say.whq_how, say.ynq_return, say.whq_unknown}
Triggers == {Question_new(t).val : t \in TriggerTexts}

\* the plan steps of test_domain_creation_and_operations, and the plans built of them
PlanSteps == {p_ConsultDB, p_Respond}
Plans == BoundedSeq(PlanSteps, MaxPlanLen)

\* Stack::pop repeated until the stack is empty: the elements in the order popped
RECURSIVE pop_all(_)
pop_all(stack) ==
    IF stack.elements = <<>> THEN <<>>
    ELSE <<Stack_top(stack)>> \o pop_all(Stack_pop(stack))

InitDomain ==
    /\ pc = "client"
    /\ mivs = new_mivs
    /\ is = [k \in {} |-> Stack_new]
    /\ domain \in travel_domains
    /\ script = <<>>
    /\ inputs = <<>>
    /\ transcript = <<>>
    /\ call = NoCall

AddPlan ==
    /\ pc = "client"
    /\ \E trigger \in Triggers, plan \in Plans :
          /\ domain' = add_plan(domain, trigger, plan)
          /\ call' = [op |-> "add_plan", question |-> trigger, plan |-> plan, result |-> None]
    /\ UNCHANGED <<pc, mivs, is, inputs, script, transcript>>

GetPlan ==
    /\ pc = "client"
    /\ \E question \in Triggers :
          call' = [op |-> "get_plan", question |-> question, plan |-> <<>>,
                   result |-> get_plan(domain, question)]
    /\ UNCHANGED <<pc, mivs, is, domain, inputs, script, transcript>>

NextDomain ==
    \/ AddPlan
    \/ GetPlan

SpecDomain == InitDomain /\ [][NextDomain]_vars

----------------------------------------------------------------------------
(* A client of the text constructors: each is applied to a text, and the    *)
(* value it returns is displayed and parsed again                            *)

\* the texts handed to the constructors: the short texts are built of a
\* letter, a digit, the four marks an Atomic allows, one it does not, and the
\* marks of the notation
Texts ==
    BoundedSeq({"p", "1", "_", "-", "+", ":", "*", "(", ")", "?"}, MaxTextLen)
        \cup {s_yes, s_no, word.paris, word.dest_city, word.need_visa, say.whq_how, say.p_yes,
              say.digit, say.quit, say.exit}
        \cup {txt[k] : k \in DOMAIN txt}

Constructors ==
    {"Atomic", "Ind", "Pred0", "Pred1", "Prop", "ShortAns", "YesNo", "Ans", "WhQ", "YNQ",
     "Question"}

\* T::new(s) of the type named c
construct(c, s) ==
    CASE c = "Atomic" -> Atomic_new(s)
      [] c = "Ind" -> Ind_new(s)
      [] c = "Pred0" -> Pred0_new(s)
      [] c = "Pred1" -> Pred1_new(s)
      [] c = "Prop" -> Prop_new(s)
      [] c = "ShortAns" -> ShortAns_new(s)
      [] c = "YesNo" -> YesNo_new(s)
      [] c = "Ans" -> Ans_new(s)
      [] c = "WhQ" -> WhQ_new(s)
      [] c = "YNQ" -> YNQ_new(s)
      [] c = "Question" -> Question_new(s)

\* v.to_string() of a value of the type named c
display(c, v) ==
    CASE c = "Atomic" -> Atomic_display(v)
      [] c \in {"Ind", "Pred0", "Pred1"} -> Atomic_display(v)
      [] c = "Prop" -> Prop_display(v)
      [] c = "ShortAns" -> ShortAns_display(v)
      [] c = "YesNo" -> YesNo_display(v)
      [] c = "Ans" -> Ans_display(v)
      [] c = "WhQ" -> WhQ_display(v)
      [] c = "YNQ" -> YNQ_display(v)
      [] c = "Question" -> Question_display(v)

InitText ==
    /\ pc = "text"
    /\ mivs = new_mivs
    /\ is = [k \in {} |-> Stack_new]
    /\ domain \in travel_domains
    /\ script = <<>>
    /\ inputs = <<>>
    /\ transcript = <<>>
    /\ call \in {[op |-> "text", text |-> s] : s \in Texts}

\* T::new(text) for one of the types, then T::new(value.to_string()) when a
\* value was returned; or SimpleGenGrammar::interpret(text)
Parse ==
    /\ pc = "text"
    /\ call.op = "text"
    /\ \E c \in Constructors \cup {"interpret"} :
          LET result == IF c = "interpret" THEN interpret(call.text)
                        ELSE construct(c, call.text)
          IN  call' = [op |-> c, text |-> call.text, result |-> result,
                       shown |-> IF result.tag = "Ok" THEN Some(display(c, result.val))
                                 ELSE None,
                       again |-> IF result.tag = "Ok" THEN construct(c, display(c, result.val))
                                 ELSE result]
    /\ UNCHANGED <<pc, mivs, is, domain, inputs, script, transcript>>

NextText ==
    \/ Parse

SpecText == InitText /\ [][NextText]_vars

----------------------------------------------------------------------------
(* A client of the Domain's reasoning: relevant, resolves, combine,         *)
(* typecheck and the database consult called directly                        *)

\* the Domains the client works on: the travel domain, and those Domain::new
\* builds of the predicates and sorts of test_domain_creation_and_operations,
\* with city also registered as a zero-place predicate or not, and with paris
\* also listed under vehicle or not
AnswerDomains ==
    LET test_preds1 ==
            [p \in {word.city, txt.transport} |->
                IF p = word.city THEN txt.location ELSE txt.vehicle]
        test_sorts ==
            [s \in {txt.location, txt.vehicle} |->
                IF s = txt.location THEN {word.paris, word.london}
                ELSE {word.plane, word.train}]
    IN  travel_domains \cup
        UNION { Domain_new_outcomes(preds0, test_preds1, sorts) :
                  preds0 \in {{txt.expensive, txt.available}, {txt.expensive, word.city}},
                  sorts \in {test_sorts,
                             [test_sorts EXCEPT ![txt.vehicle] = {word.plane, word.paris}]} }

\* the propositions, answers and questions handed to the Domain
Props ==
    {Prop_new(t).val :
        t \in {txt.city_paris, txt.neg_city_paris, txt.city_plane, txt.city_berlin,
               txt.dest_city_paris, txt.expensive, txt.neg_expensive, txt.expensive_paris,
               txt.transport_plane}}
Answers ==
    {[kind |-> "Prop", prop |-> p] : p \in Props}
        \cup {Ans_new(t).val : t \in {s_yes, s_no, word.paris, txt.neg_paris, word.plane,
                                       word.berlin}}
Questions ==
    {WhQ_new(t).val : t \in {word.city, txt.transport, word.dest_city, say.whq_unknown}}
        \cup {[kind |-> "YNQ", prop |-> p] : p \in Props}
        \cup {[kind |-> "AltQ", ynqs |-> alts] :
                 alts \in BoundedSeq({[kind |-> "YNQ", prop |-> Prop_new(t).val] :
                                         t \in {txt.expensive, txt.neg_expensive,
                                                txt.city_paris}}, MaxAlts)}

InitAnswers ==
    /\ pc = "answers"
    /\ mivs = new_mivs
    /\ is = [k \in {} |-> Stack_new]
    /\ domain \in AnswerDomains
    /\ script = <<>>
    /\ inputs = <<>>
    /\ transcript = <<>>
    /\ call = NoCall

\* relevant, resolves and combine called on one answer and one question
Answer ==
    /\ pc = "answers"
    /\ call = NoCall
    /\ \E answer \in Answers, question \in Questions :
          call' = [op |-> "answer", answer |-> answer, question |-> question,
                   relevant |-> relevant(domain, answer, question),
                   resolves |-> resolves(domain, answer, question),
                   combine |-> combine(domain, question, answer)]
    /\ UNCHANGED <<pc, mivs, is, domain, inputs, script, transcript>>

\* typecheck called on a proposition
Typecheck ==
    /\ pc = "answers"
    /\ call = NoCall
    /\ \E prop \in Props :
          call' = [op |-> "typecheck", prop |-> prop, result |-> Prop_typecheck(prop, domain)]
    /\ UNCHANGED <<pc, mivs, is, domain, inputs, script, transcript>>

\* consult_db called on a database and a context: the database of the travel
\* example, one whose price is a name, and one whose record has no price
Consult ==
    /\ pc = "answers"
    /\ call = NoCall
    /\ \E entries \in
             {travel_db,
              <<[price |-> txt.expensive, from |-> word.berlin, to |-> word.paris,
                 day |-> word.today]>>,
              <<[from |-> word.berlin, to |-> word.paris, day |-> word.today]>>},
          elements \in
             SUBSET {[pred |-> word.depart_city, ind |-> Some(word.berlin), yes |-> TRUE],
                     [pred |-> word.dest_city, ind |-> Some(word.paris), yes |-> TRUE],
                     [pred |-> word.dest_city, ind |-> None, yes |-> TRUE],
                     [pred |-> word.depart_day, ind |-> Some(word.today), yes |-> TRUE],
                     [pred |-> word.depart_day, ind |-> Some(word.tomorrow), yes |-> FALSE]} :
          LET context == [TSet_new EXCEPT !.elements = elements]
          IN  \E result \in consult_db_outcomes(entries, travel_whq(word.price), context) :
                 call' = [op |-> "consult_db", entries |-> entries, context |-> context,
                          result |-> result]
    /\ UNCHANGED <<pc, mivs, is, domain, inputs, script, transcript>>

\* typecheck called on If::new(cond, iftrue, iffalse) whose branches hold the
\* texts of Findout steps: call.iftrue and call.iffalse are their questions
TypecheckIf ==
    /\ pc = "answers"
    /\ call = NoCall
    /\ \E cond \in {q \in Questions : q.kind = "YNQ"},
          iftrue, iffalse \in BoundedSeq({q \in Questions : q.kind = "WhQ"}, 1) :
          call' = [op |-> "typecheck_if", cond |-> cond, iftrue |-> iftrue,
                   iffalse |-> iffalse,
                   result |-> If_typecheck(cond,
                                           [i \in DOMAIN iftrue |-> Findout_display(iftrue[i])],
                                           [i \in DOMAIN iffalse |-> Findout_display(iffalse[i])],
                                           domain)]
    /\ UNCHANGED <<pc, mivs, is, domain, inputs, script, transcript>>

\* the client is done with the result of its call
Return ==
    /\ pc = "answers"
    /\ call # NoCall
    /\ call' = NoCall
    /\ UNCHANGED <<pc, mivs, is, domain, inputs, script, transcript>>

NextAnswers ==
    \/ Answer
    \/ Typecheck
    \/ TypecheckIf
    \/ Consult
    \/ Return

SpecAnswers == InitAnswers /\ [][NextAnswers]_vars

----------------------------------------------------------------------------
(* Clients of the building blocks.  pc tells which:                          *)
(*   "containers"   items pushed onto the QUD of a new information state      *)
(*   "constrained"  the constrained containers of the tests, held in the      *)
(*                  fields of a MIVS: test_value_with_type_constraint (input),*)
(*                  test_value_creation_and_operations (output),              *)
(*                  test_tset_with_type_constraint (latest_moves),            *)
(*                  test_stack_with_type_constraint (next_moves)              *)
(*   "reader"       read_line called on a DemoInputHandler                    *)
(*   "stdin"        read_line called on a StandardInputHandler whose standard *)
(*                  input holds the lines of script                           *)

\* the items of test_stackset_operations: item1, item2, ...
Items == {<<"i", "t", "e", "m", ToString(k)>> : k \in 1..MaxItems}

InitContainers ==
    /\ pc \in {"containers", "constrained", "reader", "stdin"}
    /\ mivs = IF pc = "constrained"
              THEN [new_mivs EXCEPT
                      !.input = Value_new_type("len_gt_2"),
                      !.output = Value_new_allowed({<<"h", "i">>, <<"h", "e", "l", "l", "o">>}),
                      !.latest_moves = TSet_with_type("len_le_5"),
                      !.next_moves = Stack_with_type("starts_with_valid")]
              ELSE new_mivs
    /\ is = init_is
    /\ domain \in travel_domains
    /\ script \in CASE pc = "reader" -> Scripts
                    [] pc = "stdin" -> {s \in Scripts : Len(s) <= 1}
                    [] OTHER -> {<<>>}
    /\ inputs = DemoInputHandler_new(script)
    /\ transcript = <<>>
    /\ call = NoCall

\* StackSet::push on the QUD
QudPush ==
    /\ pc = "containers"
    /\ \E value \in Items :
          /\ is' = [is EXCEPT !.qud = StackSet_push(@, value)]
          /\ call' = [op |-> "push", value |-> value,
                      present |-> StackSet_contains(is.qud, value),
                      result |-> Stack_push_ok(is.qud.stack, value)]
    /\ UNCHANGED <<pc, mivs, domain, inputs, script, transcript>>

\* Value::set, TSet::add or Stack::push of a string on one of the containers
Insertion ==
    /\ pc = "constrained"
    /\ \E field \in {"input", "output", "latest_moves", "next_moves"},
          value \in {<<"h", "i">>, <<"h", "e", "l", "l", "o">>,
                     <<"v", "a", "l", "i", "d", "_", "i", "t", "e", "m">>} :
          /\ field = "next_moves" => Len(mivs.next_moves.elements) < MaxDepth
          /\ mivs' = [mivs EXCEPT ![field] =
                        CASE field \in {"input", "output"} -> Value_set(@, value)
                          [] field = "latest_moves" -> TSet_add(@, value)
                          [] field = "next_moves" -> Stack_push(@, value)]
          /\ call' = [op |-> "insert", field |-> field, value |-> value,
                      result |-> CASE field \in {"input", "output"} ->
                                          Value_set_ok(mivs[field], value)
                                   [] field = "latest_moves" ->
                                          TSet_add_ok(mivs[field], value)
                                   [] field = "next_moves" ->
                                          Stack_push_ok(mivs[field], value)]
    /\ UNCHANGED <<pc, is, domain, inputs, script, transcript>>

\* DialogueManager::reset called in whatever state the client has reached
ResetCall ==
    /\ pc \in {"containers", "constrained"}
    /\ is' = init_is
    /\ mivs' = init_mivs
    /\ call' = [op |-> "reset", fresh |-> (is = init_is /\ mivs = init_mivs)]
    /\ UNCHANGED <<pc, domain, inputs, script, transcript>>

\* DemoInputHandler::read_line, has_input read just before it
ReadLine ==
    /\ pc = "reader"
    /\ Len(transcript) < MaxReads
    /\ inputs' = read_line_queue(inputs)
    /\ transcript' = Append(transcript, read_line_print(inputs))
    /\ call' = [op |-> "read_line", result |-> read_line_result(inputs),
                has_input |-> has_input(inputs)]
    /\ UNCHANGED <<pc, mivs, is, domain, script>>

\* StandardInputHandler::read_line: io::stdin().read_line gives the next line
\* with its newline, Ok(0) with nothing appended at end of input, or an error
StdinRead ==
    /\ pc = "stdin"
    /\ Cardinality({i \in 1..Len(transcript) : transcript[i].who = "prompt"}) < MaxReads
    /\ \E outcome \in {Ok(IF inputs # <<>> THEN Head(inputs) \o <<"\n">> ELSE <<>>), Err} :
          /\ inputs' = IF outcome.tag = "Ok" /\ inputs # <<>> THEN Tail(inputs) ELSE inputs
          /\ transcript' = transcript \o <<[who |-> "prompt", text |-> <<>>]>>
                 \o (IF outcome.tag = "Err"
                     THEN <<[who |-> "notice", text |-> <<"E", "O", "F">>]>> ELSE <<>>)
          /\ call' = [op |-> "stdin_read", outcome |-> outcome,
                      at_end |-> (inputs = <<>>),
                      result |-> StandardInputHandler_read_line(outcome)]
    /\ UNCHANGED <<pc, mivs, is, domain, script>>

NextContainers ==
    \/ QudPush
    \/ Insertion
    \/ ResetCall
    \/ ReadLine
    \/ StdinRead

SpecContainers == InitContainers /\ [][NextContainers]_vars

----------------------------------------------------------------------------
(* What the properties below read off the state *)

program_state == Value_get(mivs.program_state)
latest_moves == mivs.latest_moves.elements
next_moves == mivs.next_moves.elements

\* the number of read_line calls made so far: each prints one line
reads == Len(SelectSeq(transcript, LAMBDA e : e.who \in {"U", "notice"}))
\* whether some input step received end-of-input
eof_seen == \E i \in 1..Len(transcript) : transcript[i].who = "notice"
\* whether the latest thing printed is "Did not understand"
last_not_understood ==
    transcript # <<>> /\ transcript[Len(transcript)].who = "not_understood"

----------------------------------------------------------------------------
(* Properties *)

\* C1: once an input step has received end-of-input (the run state is QUIT),
\* nothing else is processed: latest_moves, input and latest_speaker stay what
\* they were just before that input step.
C1_EofStopsIteration ==
    [][program_state' = Some("QUIT") =>
         /\ mivs'.latest_moves = mivs.latest_moves
         /\ mivs'.input = mivs.input
         /\ mivs'.latest_speaker = mivs.latest_speaker]_vars

\* C2: no iteration body starts while the run state is QUIT, and run() ends only
\* with the run state QUIT, after exactly n+1 input steps for a script of n lines.
C2_RunEndsInQuitAfterAllLines ==
    /\ pc = "select" => program_state = Some("RUN")
    /\ pc \in {"done", "aborted"} =>
         /\ program_state = Some("QUIT")
         /\ reads = Len(script) + 1

Ask_display(q) == <<"A", "s", "k", "(", "'">> \o Question_display(q) \o <<"'", ")">>

\* the system turns after the greeting, and the user lines, in the order printed
system_asks == SelectSeq(transcript, LAMBDA e : e.who = "S" /\ e.moves # {m_Greet})
\* the place in the transcript of the k-th entry that satisfies Test (past the
\* end when there are fewer)
place_of(k, Test(_)) ==
    LET places == {i \in 1..Len(transcript) :
                     /\ Test(transcript[i])
                     /\ Cardinality({j \in 1..i : Test(transcript[j])}) = k}
    IN  IF places = {} THEN Len(transcript) + 1 ELSE CHOOSE i \in places : TRUE

\* C4: in the travel scenario (travel domain, the plan registered for
\* ?x.price(x), the scripted lines train, paris, berlin, today, first, no) the
\* finished session has asked how, dest_city, depart_city, depart_day, class and
\* return in that order and nothing else, each before the matching user line was
\* read, and holds the proposition price(232).
C4_TravelScenario ==
    (pc = "done" /\ script = travel_script
        /\ Question_display(travel_whq(word.price)) \in DOMAIN domain.plans) =>
      /\ [i \in 1..Len(system_asks) |-> system_asks[i].moves] =
            << {Ask_display(travel_whq(word.how))},
               {Ask_display(travel_whq(word.dest_city))},
               {Ask_display(travel_whq(word.depart_city))},
               {Ask_display(travel_whq(word.depart_day))},
               {Ask_display(travel_whq(word.class))},
               {Ask_display(travel_ynq_return)} >>
      /\ \A k \in 1..6 :
            place_of(k, LAMBDA e : e.who = "S" /\ e.moves # {m_Greet})
              < place_of(k, LAMBDA e : e.who = "U")
      /\ word.price \o <<"(">> \o word.n232 \o <<")">> \in is.bel.elements \cup is.com.elements

\* C5: the interpret step of a turn whose line was read (the run state is RUN)
\* always completes: the controller goes on to the update step with the run
\* state still RUN, whatever the line.
C5_NoUtteranceAborts ==
    [][(pc = "interpret" /\ program_state = Some("RUN")) =>
         (pc' = "update_usr" /\ program_state' = Some("RUN"))]_vars

C7_OutputMovesNextToLatest ==
    [][/\ pc = "select" =>
            pc' = (IF next_moves' # <<>> THEN "generate" ELSE "input")
       /\ pc' \in {"generate", "output"} => next_moves' # <<>>
       /\ pc = "output" =>
            /\ Value_get(mivs'.latest_speaker) = Some("SYS")
            /\ latest_moves' = {next_moves[i] : i \in 1..Len(next_moves)}
            /\ next_moves' = <<>>
            /\ pc' = "update_sys"]_vars

\* the output step has run on the Greet move
C7_Witness ==
    /\ pc = "update_sys"
    /\ latest_moves = {m_Greet}
    /\ next_moves = <<>>
    /\ Value_get(mivs.latest_speaker) = Some("SYS")

\* C8: the loop is entered with Greet on next_moves, and the first thing printed
\* in a session is the system turn rendering Greet: no line is read before it,
\* whatever the domain, its plans and the input.
C8_GreetBeforeFirstInput ==
    /\ (pc = "loop" /\ transcript = <<>>) => next_moves = <<m_Greet>>
    /\ transcript # <<>> =>
         /\ transcript[1].who = "S"
         /\ transcript[1].moves = {m_Greet}
         /\ transcript[1].text = f_Hello \o <<".">>
    /\ reads > 0 => Len(transcript) > reads

\* the input source is exhausted from the start and the greeting was printed
\* before end-of-input was received
C8_Witness ==
    /\ script = <<>>
    /\ Len(transcript) = 2
    /\ transcript[1].who = "S"
    /\ transcript[2].who = "notice"

\* C9: an add_plan whose trigger does not typecheck against the Domain leaves
\* the plan table as it was.
C9_AddPlanRejectsIllTyped ==
    [][(call'.op = "add_plan" /\ ~Question_typecheck(call'.question, domain)) =>
         domain'.plans = domain.plans]_vars

\* C10: a new Domain has no plan for any question; add_plan(q, steps) makes
\* get_plan(q) a stack that pops to steps in their declared order (replacing
\* what was registered for q) and leaves get_plan of every other question as it
\* was; get_plan returns what the Domain holds at the time of the call.
C10_GetPlanReturnsStepsInOrder ==
    /\ \A q \in Triggers : get_plan(domain, q) = None
    /\ [][/\ call'.op = "add_plan" =>
               /\ get_plan(domain', call'.question) # None
               /\ pop_all(get_plan(domain', call'.question)[1]) = call'.plan
               /\ \A q \in Triggers \ {call'.question} :
                     get_plan(domain', q) = get_plan(domain, q)
          /\ call'.op = "get_plan" =>
               /\ call'.result = get_plan(domain, call'.question)
               /\ domain' = domain]_vars

\* get_plan returned the two steps registered before, the first declared on top
C10_Witness ==
    /\ call.op = "get_plan"
    /\ call.result # None
    /\ pop_all(call.result[1]) = <<p_ConsultDB, p_Respond>>
    /\ Stack_top(call.result[1]) = p_ConsultDB

\* C14: display is the inverse of parsing: whenever a text constructor accepts
\* a text, the displayed form of the value is accepted by the same constructor
\* and parses to an equal value.
C14_DisplayInvertsParsing ==
    (call.op \in Constructors /\ call.result.tag = "Ok") => call.again = call.result

\* C15: every text constructor, applied to any text, returns a value or an
\* error; none aborts.
C15_ConstructorsNeverAbort ==
    call.op \in Constructors => call.result.tag \in {"Ok", "Err"}

\* C16: Atomic::new(s) succeeds if and only if s is not empty, is neither "yes"
\* nor "no", starts with a letter and holds only alphanumeric characters and
\* the marks _ - + : ; on success the content and its display are s.
C16_AtomicAcceptsIdentifiers ==
    call.op = "Atomic" =>
      /\ call.result.tag \in {"Ok", "Err"}
      /\ call.result.tag = "Ok" <=>
            /\ Len(call.text) > 0
            /\ call.text \notin {<<"y", "e", "s">>, <<"n", "o">>}
            /\ call.text[1] \in Letters
            /\ \A i \in 1..Len(call.text) :
                  call.text[i] \in Letters \cup Digits \cup {"_", "-", "+", ":"}
      /\ call.result.tag = "Ok" =>
            (call.result.val = call.text /\ call.shown = Some(call.text))

\* Atomic::new has accepted a text that holds one of the four marks
C16_Witness ==
    /\ call.op = "Atomic"
    /\ call.text = txt.with_colon
    /\ call.result = Ok(txt.with_colon)

\* C11: relevant(a, q) is true exactly when a is a proposition and q a WhQ of
\* the same predicate; or a is a short answer and q a WhQ and the individual's
\* sort is defined and is the declared sort of the WhQ's predicate; or a is
\* yes/no and q a YNQ or an AltQ; or a is a proposition equal to the YNQ's
\* proposition, or to the proposition of one of the AltQ's alternatives.
C11_RelevantCases ==
    call.op = "answer" =>
      LET a == call.answer
          q == call.question
      IN  call.relevant <=>
            \/ a.kind = "Prop" /\ q.kind = "WhQ" /\ a.prop.pred = q.pred
            \/ /\ a.kind = "ShortAns" /\ q.kind = "WhQ"
               /\ a.ind \in DOMAIN domain.inds
               /\ q.pred \in DOMAIN domain.preds1
               /\ domain.inds[a.ind] = domain.preds1[q.pred]
            \/ a.kind = "YesNo" /\ q.kind \in {"YNQ", "AltQ"}
            \/ /\ a.kind = "Prop" /\ q.kind = "YNQ"
               /\ a.prop.pred = q.prop.pred /\ a.prop.ind = q.prop.ind
               /\ a.prop.yes = q.prop.yes
            \/ /\ a.kind = "Prop" /\ q.kind = "AltQ"
               /\ \E i \in 1..Len(q.ynqs) : a.prop = q.ynqs[i].prop

\* the short answer paris is relevant to ?x.city(x) in the test's Domain
C11_Witness ==
    /\ call.op = "answer"
    /\ call.answer = [kind |-> "ShortAns", ind |-> word.paris, yes |-> TRUE]
    /\ call.question = [kind |-> "WhQ", pred |-> word.city]
    /\ domain.inds[word.paris] = txt.location
    /\ call.relevant

\* C12: resolves(a, q) implies relevant(a, q), and resolves(a, q) is true
\* exactly when relevant(a, q) holds and either a is yes/no and q a YNQ, or q is
\* a WhQ and a is a short answer or a proposition of positive polarity.
C12_ResolvesCases ==
    call.op = "answer" =>
      LET a == call.answer
          q == call.question
      IN  /\ call.resolves => call.relevant
          /\ call.resolves <=>
                /\ call.relevant
                /\ \/ a.kind = "YesNo" /\ q.kind = "YNQ"
                   \/ a.kind = "ShortAns" /\ q.kind = "WhQ" /\ a.yes
                   \/ a.kind = "Prop" /\ q.kind = "WhQ" /\ a.prop.yes

\* the negative short answer -paris is relevant to ?x.city(x) and does not
\* resolve it
C12_Witness ==
    /\ call.op = "answer"
    /\ call.answer = [kind |-> "ShortAns", ind |-> word.paris, yes |-> FALSE]
    /\ call.question = [kind |-> "WhQ", pred |-> word.city]
    /\ call.relevant
    /\ ~call.resolves

\* C13: on a relevant pair combine returns, for a WhQ p and a short answer i
\* of polarity s, the proposition p(i) of polarity s; for a YNQ of proposition
\* P and a yes/no answer of polarity y, P with the polarity y; for any
\* question and a proposition answer, that proposition.
C13_CombineReference ==
    (call.op = "answer" /\ call.relevant) =>
      LET a == call.answer
          q == call.question
      IN  /\ (q.kind = "WhQ" /\ a.kind = "ShortAns") =>
                call.combine = Ok([pred |-> q.pred, ind |-> Some(a.ind), yes |-> a.yes])
          /\ (q.kind = "YNQ" /\ a.kind = "YesNo") =>
                call.combine = Ok([pred |-> q.prop.pred, ind |-> q.prop.ind, yes |-> a.yes])
          /\ a.kind = "Prop" => call.combine = Ok(a.prop)

\* yes was combined with the YNQ of the negative proposition -expensive
C13_Witness ==
    /\ call.op = "answer"
    /\ call.answer = [kind |-> "YesNo", yes |-> TRUE]
    /\ call.question = [kind |-> "YNQ", prop |-> Prop_new(txt.neg_expensive).val]
    /\ call.combine = Ok(Prop_new(txt.expensive).val)

\* C17: in every Domain that Domain::new builds, the index maps an individual
\* to a sort if and only if the individual is listed under that sort in the
\* sort map; and no call on the Domain changes the predicate sets, the sort
\* map or the index.
C17_IndexInvertsSorts ==
    /\ [](\A s \in DOMAIN domain.sorts :
            \A i \in (DOMAIN domain.inds) \cup UNION {domain.sorts[t] : t \in DOMAIN domain.sorts} :
               Get(domain.inds, i) = Some(s) <=> i \in domain.sorts[s])
    /\ [][/\ domain'.preds0 = domain.preds0
          /\ domain'.preds1 = domain.preds1
          /\ domain'.sorts = domain.sorts
          /\ domain'.inds = domain.inds]_vars

\* C18: typecheck of a proposition succeeds if and only if its predicate is a
\* registered zero-place predicate, its argument, when present, is a
\* registered individual, and, when the predicate is also a registered
\* one-place predicate and an argument is present, the argument's sort is the
\* declared sort of that predicate; the call leaves the Domain as it was.
C18_PropTypecheck ==
    [][call'.op = "typecheck" =>
         LET p == call'.prop
         IN  /\ call'.result <=>
                   /\ p.pred \in domain.preds0
                   /\ p.ind # None => p.ind[1] \in DOMAIN domain.inds
                   /\ (p.pred \in DOMAIN domain.preds1 /\ p.ind # None) =>
                         Get(domain.inds, p.ind[1]) = Some(domain.preds1[p.pred])
             /\ domain' = domain]_vars

\* city(plane) was rejected by a Domain where city is a zero-place and a
\* one-place predicate and plane is an individual of another sort
C18_Witness ==
    /\ call.op = "typecheck"
    /\ call.prop = Prop_new(txt.city_plane).val
    /\ word.city \in domain.preds0
    /\ word.city \in DOMAIN domain.preds1
    /\ word.plane \in DOMAIN domain.inds
    /\ ~call.result

\* C19: a consult whose context lacks one of depart_city, dest_city,
\* depart_day, or matches no stored record on all three, does not abort.
C19_ConsultMissDoesNotAbort ==
    call.op = "consult_db" =>
      LET named(pred) == {prop \in call.context.elements : prop.pred = pred}
          lacks == \E pred \in {word.depart_city, word.dest_city, word.depart_day} :
                      named(pred) = {}
          matches == \E i \in 1..Len(call.entries) :
                        /\ \E prop \in named(word.depart_city) :
                              prop.ind = Some(call.entries[i].from)
                        /\ \E prop \in named(word.dest_city) :
                              prop.ind = Some(call.entries[i].to)
                        /\ \E prop \in named(word.depart_day) :
                              prop.ind = Some(call.entries[i].day)
      IN  (lacks \/ ~matches) => call.result.tag # "Panic"

\* C20: a StackSet never holds an element twice; pushing an element already
\* present leaves the length unchanged, makes it the top and keeps the order of
\* the other elements; pushing an absent element makes the length one more and
\* makes it the top.
C20_UniqueStack ==
    /\ [](\A i, j \in 1..Len(is.qud.stack.elements) :
            is.qud.stack.elements[i] = is.qud.stack.elements[j] => i = j)
    /\ [][call'.op = "push" =>
            LET old == is.qud.stack.elements
                new == is'.qud.stack.elements
                v == call'.value
            IN  /\ new # <<>> /\ new[Len(new)] = v
                /\ SelectSeq(new, LAMBDA x : x # v) = SelectSeq(old, LAMBDA x : x # v)
                /\ Len(new) = IF \E i \in 1..Len(old) : old[i] = v THEN Len(old)
                              ELSE Len(old) + 1]_vars

\* item1 was pushed again onto a QUD that held it under two other items
C20_Witness ==
    /\ call.op = "push"
    /\ call.present
    /\ call.value = <<"i", "t", "e", "m", "1">>
    /\ is.qud.stack.elements =
          << <<"i", "t", "e", "m", "2">>, <<"i", "t", "e", "m", "3">>,
             <<"i", "t", "e", "m", "1">> >>

\* C21: an insertion that violates the container's constraint (Value::set of a
\* value outside the allowed set or failing the predicate, TSet::add or
\* Stack::push of a value failing the predicate) returns an error and leaves
\* the container as it was; every stored element satisfies the constraint of
\* its container.
C21_ViolationsRejected ==
    /\ [][call'.op = "insert" =>
            LET c == mivs[call'.field]
                v == call'.value
                violates ==
                    IF "allowed_values" \in DOMAIN c /\ c.type_constraint = None
                    THEN v \notin c.allowed_values
                    ELSE c.type_constraint # None /\ ~check(c.type_constraint[1], v)
            IN  violates => ~call'.result /\ mivs'[call'.field] = c]_vars
    /\ [](pc = "constrained" =>
            /\ \A f \in {"input", "output"} :
                  mivs[f].value # None =>
                      IF mivs[f].type_constraint = None
                      THEN mivs[f].value[1] \in mivs[f].allowed_values
                      ELSE check(mivs[f].type_constraint[1], mivs[f].value[1])
            /\ \A v \in mivs.latest_moves.elements :
                  mivs.latest_moves.type_constraint # None =>
                      check(mivs.latest_moves.type_constraint[1], v)
            /\ \A i \in 1..Len(mivs.next_moves.elements) :
                  mivs.next_moves.type_constraint # None =>
                      check(mivs.next_moves.type_constraint[1], mivs.next_moves.elements[i]))

\* "hello" was refused by a Stack that takes only strings starting with
\* "valid_" and holds one already, a TSet of strings of at most 5 bytes holds
\* one, and both Values hold one
C21_Witness ==
    /\ call = [op |-> "insert", field |-> "next_moves",
               value |-> <<"h", "e", "l", "l", "o">>, result |-> FALSE]
    /\ mivs.next_moves.type_constraint = Some("starts_with_valid")
    /\ Len(mivs.next_moves.elements) = 1
    /\ mivs.latest_moves.type_constraint = Some("len_le_5")
    /\ mivs.latest_moves.elements # {}
    /\ mivs.input.value # None
    /\ mivs.output.value # None

\* C22: when standard input is exhausted (the underlying read returns zero
\* bytes), StandardInputHandler::read_line returns None.
C22_StdinEndIsNone ==
    (call.op = "stdin_read" /\ call.at_end /\ call.outcome = Ok(<<>>)) => call.result = None

\* C25: a DemoInputHandler built from the list L returns the strings of L in
\* order, one per call of read_line, then None on every later call; has_input
\* is true exactly while unread strings remain.
C25_ScriptReplayedInOrder ==
    /\ [][call'.op = "read_line" =>
            /\ call'.result = IF Len(transcript) < Len(script)
                              THEN Some(script[Len(transcript) + 1]) ELSE None
            /\ call'.has_input <=> Len(transcript) < Len(script)]_vars
    /\ [](pc = "reader" => (has_input(inputs) <=> Len(transcript) < Len(script)))

\* the reader of "train", "quit" was read four times: the last two calls
\* returned None
C25_Witness ==
    /\ pc = "reader"
    /\ script = <<word.train, say.quit>>
    /\ Len(transcript) = 4
    /\ transcript[1].text = word.train /\ transcript[2].text = say.quit
    /\ transcript[3].who = "notice"
    /\ call.op = "read_line" /\ call.result = None /\ ~call.has_input

\* C26: after reset the run state is RUN, input, output and latest speaker are
\* unset, latest_moves and next_moves are empty, and the information state has
\* exactly the fields agenda, plan, bel, com and qud, each empty, whatever the
\* state before.
C26_ResetIsFresh ==
    [][call'.op = "reset" =>
         /\ Value_get(mivs'.program_state) = Some("RUN")
         /\ Value_get(mivs'.input) = None
         /\ Value_get(mivs'.output) = None
         /\ Value_get(mivs'.latest_speaker) = None
         /\ mivs'.latest_moves.elements = {}
         /\ mivs'.next_moves.elements = <<>>
         /\ DOMAIN is' = {"agenda", "plan", "bel", "com", "qud"}
         /\ is'.agenda.elements = <<>> /\ is'.plan.elements = <<>>
         /\ is'.bel.elements = {} /\ is'.com.elements = {}
         /\ is'.qud.stack.elements = <<>>
         /\ \A f \in {"input", "output", "latest_moves", "next_moves"} :
               mivs'[f].type_constraint = init_mivs[f].type_constraint
         /\ mivs'.output.allowed_values = {}]_vars

\* reset was called on a state that was not fresh
C26_Witness ==
    /\ call = [op |-> "reset", fresh |-> FALSE]
    /\ pc = "constrained"
    /\ mivs = init_mivs

\* C23: typecheck of an If step succeeds only if the condition and every step
\* of both branches typecheck against the Domain.
C23_IfTypecheckRecurses ==
    call.op = "typecheck_if" =>
        (call.result =>
            /\ Question_typecheck(call.cond, domain)
            /\ \A i \in DOMAIN call.iftrue : Question_typecheck(call.iftrue[i], domain)
            /\ \A i \in DOMAIN call.iffalse : Question_typecheck(call.iffalse[i], domain))

\* C24: when the context holds one proposition each for depart_city, dest_city
\* and depart_day and a stored record with a price equals them on from, to and
\* day, consult returns the positive proposition price(v), v the price of the
\* first such record, whatever the price text.
C24_ConsultReturnsPrice ==
    call.op = "consult_db" =>
      LET named(pred) == {prop \in call.context.elements : prop.pred = pred}
          keyed == \A pred \in {word.depart_city, word.dest_city, word.depart_day} :
                      Cardinality(named(pred)) = 1 /\ \A prop \in named(pred) : prop.ind # None
          hits == {i \in 1..Len(call.entries) :
                     /\ \A prop \in named(word.depart_city) :
                           prop.ind = Some(call.entries[i].from)
                     /\ \A prop \in named(word.dest_city) :
                           prop.ind = Some(call.entries[i].to)
                     /\ \A prop \in named(word.depart_day) :
                           prop.ind = Some(call.entries[i].day)}
          first == CHOOSE i \in hits : \A j \in hits : i <= j
      IN  (keyed /\ hits # {} /\ "price" \in DOMAIN call.entries[first]) =>
             call.result = Ok([pred |-> word.price, ind |-> Some(call.entries[first].price),
                               yes |-> TRUE])

\* C29: for every question and answer with relevant(answer, question) true,
\* combine returns a proposition and does not abort.
C29_CombineDefinedOnRelevant ==
    (call.op = "answer" /\ call.relevant) => call.combine.tag = "Ok"

\* C30: for every WhQ that typechecks against the Domain and every short answer
\* that typechecks and is relevant to it, the proposition returned by combine
\* typechecks against the same Domain.
C30_CombinePreservesTyping ==
    (/\ call.op = "answer"
     /\ call.question.kind = "WhQ"
     /\ call.answer.kind = "ShortAns"
     /\ Question_typecheck(call.question, domain)
     /\ Ind_typecheck(call.answer.ind, domain)
     /\ call.relevant) =>
        /\ call.combine.tag = "Ok"
        /\ Prop_typecheck(call.combine.val, domain)

\* C27: interpret gives the one move Quit() for "quit" and "exit"; otherwise
\* the one move Ask for a text that parses as a Question; otherwise the one
\* move Answer for a text that parses as an Answer; otherwise no
\* interpretation.
C27_InterpretPriority ==
    call.op = "interpret" =>
        call.result =
            IF call.text \in {say.quit, say.exit}
            THEN [tag |-> "Some", val |-> [TSet_new EXCEPT !.elements = {m_Quit}]]
            ELSE IF Question_new(call.text).tag = "Ok"
            THEN [tag |-> "Some", val |-> [TSet_new EXCEPT !.elements = {Ask_of(call.text)}]]
            ELSE IF Ans_new(call.text).tag = "Ok"
            THEN [tag |-> "Some", val |-> [TSet_new EXCEPT !.elements = {Answer_of(call.text)}]]
            ELSE [tag |-> "None"]

\* C28: Question::new accepts exactly the texts "?x." pred "(x)", giving a WhQ,
\* and "?" ["-"] pred ["(" ind ")"], giving a YNQ, and returns a parse error
\* for every other text.
C28_QuestionGrammar ==
    call.op = "Question" =>
        LET s == call.text
            ident(t) ==
                /\ t # <<>> /\ t \notin {s_yes, s_no}
                /\ t[1] \in Letters
                /\ \A i \in 1..Len(t) : t[i] \in Letters \cup Digits \cup {"_", "-", "+", ":"}
            atom(t) ==
                \/ ident(t)
                \/ \E k \in 1..Len(t) :
                      /\ t[k] = "(" /\ t[Len(t)] = ")"
                      /\ ident(SubSeq(t, 1, k - 1))
                      /\ ident(SubSeq(t, k + 1, Len(t) - 1))
            prop(t) == IF t # <<>> /\ t[1] = "-" THEN atom(Tail(t)) ELSE atom(t)
            whq == /\ Len(s) >= 6
                   /\ SubSeq(s, 1, 3) = <<"?", "x", ".">>
                   /\ SubSeq(s, Len(s) - 2, Len(s)) = <<"(", "x", ")">>
                   /\ ident(SubSeq(s, 4, Len(s) - 3))
            ynq == s # <<>> /\ s[1] = "?" /\ prop(Tail(s))
        IN  /\ whq => call.result.tag = "Ok" /\ call.result.val.kind = "WhQ"
            /\ (ynq /\ ~whq) => call.result.tag = "Ok" /\ call.result.val.kind = "YNQ"
            /\ ~(whq \/ ynq) => call.result.tag = "Err"

====
